---- MODULE Spec2Model ----
(***************************************************************************)
(* The App component of steam-bubbles/src/App.tsx as a state machine: the  *)
(* merge map and its editing handlers, the two provider loaders with their *)
(* fetches in flight, the aggregation effect and the ranked feed computed  *)
(* on render.                                                              *)
(***************************************************************************)
EXTENDS Integers, Sequences, FiniteSets, TLC

\* ------------------------------------------------------------------------
\* Bounds of the model
\* ------------------------------------------------------------------------
MaxId == 3
MaxFetches == 2
LongLen == 11

\* ------------------------------------------------------------------------
\* Values
\* ------------------------------------------------------------------------
Max2(a, b) == IF a >= b THEN a ELSE b

Min2(a, b) == IF a <= b THEN a ELSE b

\* appids of the titles of the model
Ids == 1..MaxId

\* appids of the long library the ranked feed is cut on
AppIds == 1..Max2(MaxId, LongLen)

\* the "" of mergeFrom / mergeTo (number | "")
Blank == 0

\* map[cur] of an appid that has no entry in the merge map (undefined)
NoEdge == 0

\* the messages setError is called with
ErrNone == ""
ErrLoop == "That merge would create a loop."
ErrNoGamesMy == "No games returned. Your Steam 'Game Details' privacy must be Public."
ErrNoGamesId == "No games returned. That user's Steam 'Game Details' privacy must be Public."
ErrFailedForId == "Failed to load games for that ID."
ErrFailed == "Failed to load games."

\* the messages the two loaders set when the provider fetch failed
FetchFailureMessages == {ErrNoGamesMy, ErrNoGamesId, ErrFailedForId, ErrFailed}

\* names and playtimes (minutes) the provider reports for the appids
Names == <<"A", "B", "C", "D", "E", "F", "G", "H", "I", "J", "K", "L">>
Minutes == <<600, 300, 120, 60, 60, 30, 30, 20, 20, 10, 10, 5>>

RawGame(i) == [appid |-> i, name |-> Names[i], playtime_forever |-> Minutes[i]]

\* the whole library, in appid order
FullList == [i \in 1..MaxId |-> RawGame(i)]

\* a library without appid 1, in descending appid order
PartialList == [i \in 1..(MaxId - 1) |-> RawGame(MaxId + 1 - i)]

\* a library longer than the smallest Top N
LongList == [i \in 1..LongLen |-> RawGame(i)]

\* data.response.games of a response
Responses == {<<>>, FullList, PartialList}

\* useState<number>(100) of topNInput and topN
DefaultTopN == 100

\* Math.max(5, topN)
MinTopN == 5

\* positions of the Top N slider (min 10, max 300, step 10)
TopNChoices == {10, DefaultTopN}

\* steamIdInput: blank, or something typed into the SteamID box
SteamIdTexts == {"", "76561197960287930"}

VARIABLES
    rawGames,       \* useState<any[]>([])
    unmergedGames,  \* useState<GameViz[]>([])
    merged,         \* the Map built by the last run of the aggregation effect
    games,          \* useState<GameViz[]>([])
    error,          \* useState("")
    steamIdInput,   \* useState(localStorage manualSteamId || "")
    manualLoading,  \* useState(false)
    mergeMap,       \* useState<MergeMap>
    mergeFrom,      \* useState<number | "">("")
    mergeTo,        \* useState<number | "">("")
    aggDirty,       \* rawGames or mergeMap was set and the effect has not run yet
    inflight,       \* the provider fetches awaited by loadMyGames / loadGamesById
    issued,         \* number of fetches issued so far
    hiddenAppids,   \* useState<Set<number>>
    topNInput,      \* useState<number>(100)
    topN,           \* useState<number>(100)
    showAll,        \* useState<boolean>(false)
    topNTimer,      \* the 120 ms timeout of the topNInput effect is pending
    lsMergeMap,     \* localStorage entry "mergeMap"
    lsHidden,       \* localStorage entry "hiddenAppids"
    lastOp          \* the handler or callback that ran last, with its outcome

\* what the view controls set, and nothing else reads or writes
viewVars == <<hiddenAppids, topNInput, topN, showAll, topNTimer>>

\* the two entries of the durable store
storeVars == <<lsMergeMap, lsHidden>>

vars == <<rawGames, unmergedGames, merged, games, error, steamIdInput,
          manualLoading, mergeMap, mergeFrom, mergeTo, aggDirty, inflight,
          issued, hiddenAppids, topNInput, topN, showAll, topNTimer,
          lsMergeMap, lsHidden, lastOp>>

\* ------------------------------------------------------------------------
\* findMergeRoot
\* ------------------------------------------------------------------------
RECURSIVE FindRootFrom(_, _, _)
FindRootFrom(cur, seen, map) ==
    IF map[cur] # NoEdge /\ cur \notin seen
    THEN FindRootFrom(map[cur], seen \cup {cur}, map)
    ELSE cur

findMergeRoot(appid, map) == FindRootFrom(appid, {}, map)

\* the number of edges findMergeRoot follows before it returns
RECURSIVE FindRootSteps(_, _, _)
FindRootSteps(cur, seen, map) ==
    IF map[cur] # NoEdge /\ cur \notin seen
    THEN 1 + FindRootSteps(map[cur], seen \cup {cur}, map)
    ELSE 0

\* { ...mergeMap, [mergeFrom]: mergeTo }
WithEdge(map, from, to) == [map EXCEPT ![from] = to]

EmptyMap == [i \in AppIds |-> NoEdge]

\* ------------------------------------------------------------------------
\* The aggregation effect's computation
\* ------------------------------------------------------------------------
\* Number(g.playtime_forever ?? 0) / 60, or 0 when that is not a finite
\* number >= 0.  Hours are kept as the exact rational minutes/60, written
\* by its numerator.
Hours(playtime) == IF playtime >= 0 THEN playtime ELSE 0

\* rawGames.filter(g => g && g.appid && g.name).map(...)
KeepsRaw(g) == g.appid # 0 /\ g.name # ""

ToGameViz(g) == [appid |-> g.appid, name |-> g.name, hours |-> Hours(g.playtime_forever)]

Normalize(raw) ==
    LET kept == SelectSeq(raw, KeepsRaw)
    IN  [i \in 1..Len(kept) |-> ToGameViz(kept[i])]

\* new Map(base.map(b => [b.appid, b])): has / get (the last entry of an appid wins)
ByIdHas(base, id) == \E j \in 1..Len(base) : base[j].appid = id

ByIdGet(base, id) ==
    LET j == CHOOSE k \in 1..Len(base) :
                 /\ base[k].appid = id
                 /\ \A l \in (k + 1)..Len(base) : base[l].appid # id
    IN  base[j]

\* a lookup that never finds the entry of a root
MergedIndexNone(acc, root) == 0

\* merged.get(root): the position of the entry of key root, 0 when there is none
MergedIndex(acc, root) ==
    IF \E j \in 1..Len(acc) : acc[j].key = root
    THEN CHOOSE j \in 1..Len(acc) : acc[j].key = root
    ELSE 0

\* the title itself, whether or not its root is a title of the list
RootGameSelf(base, root, g) == g

\* const rootGame = byId.get(root) || g
RootGame(base, root, g) == IF ByIdHas(base, root) THEN ByIdGet(base, root) ELSE g

\* an iteration that assigns the playtime where the code adds it
MergeOneOverwrite(acc, base, g, map) ==
    LET root == findMergeRoot(g.appid, map)
        rootGame == RootGame(base, root, g)
        idx == MergedIndex(acc, root)
    IN  IF idx # 0
        THEN [acc EXCEPT ![idx].val.hours = g.hours]
        ELSE Append(acc, [key |-> root, val |-> [rootGame EXCEPT !.hours = g.hours]])

\* one iteration of "for (const g of base)"
MergeOne(acc, base, g, map) ==
    LET root == findMergeRoot(g.appid, map)
        rootGame == RootGame(base, root, g)
        idx == MergedIndex(acc, root)
    IN  IF idx # 0
        THEN [acc EXCEPT ![idx].val.hours = @ + g.hours]
        ELSE Append(acc, [key |-> root, val |-> [rootGame EXCEPT !.hours = g.hours]])

RECURSIVE MergeLoop(_, _, _, _)
MergeLoop(acc, base, i, map) ==
    IF i > Len(base) THEN acc
    ELSE MergeLoop(MergeOne(acc, base, base[i], map), base, i + 1, map)

\* the Map merged, in insertion order, as a sequence of [key, val]
Aggregate(base, map) == MergeLoop(<<>>, base, 1, map)

\* [...merged.values()]
Values(m) == [i \in 1..Len(m) |-> m[i].val]

\* ------------------------------------------------------------------------
\* The durable store: what is written, what is read back
\* ------------------------------------------------------------------------
\* a value of a stored array or object that is no integer (a string, null,
\* a fraction); also what Number() makes of it, NaN or a fraction
NotAnId == -1

\* localStorage.getItem returns null: the key is not there
Missing == [t |-> "missing"]

\* the entry is the empty string
EmptyText == [t |-> "empty"]

\* the entry is text JSON.parse throws on
Malformed == [t |-> "malformed"]

\* the entry parses to null, to a number, to a string
JsonNull == [t |-> "null"]
JsonNumber == [t |-> "number"]
JsonString == [t |-> "string"]

\* the entry parses to an array of the given items
JsonArray(items) == [t |-> "array", items |-> items]

\* the entry parses to an object with the given <<key, value>> members,
\* the keys being decimal strings written here as the integer they spell
JsonObject(members) == [t |-> "object", members |-> members]

\* a stringify that loses the merges of the last appid
StringifyMapLossy(map) ==
    JsonObject({<<i, map[i]>> : i \in {j \in DOMAIN map : map[j] # NoEdge /\ j # MaxId}})

\* JSON.stringify(mergeMap)
StringifyMap(map) ==
    JsonObject({<<i, map[i]>> : i \in {j \in DOMAIN map : map[j] # NoEdge}})

\* the elements of a set of integers as an array, in ascending order
RECURSIVE Ascending(_)
Ascending(set) ==
    IF set = {} THEN <<>>
    ELSE LET least == CHOOSE a \in set : \A b \in set : a <= b
         IN  <<least>> \o Ascending(set \ {least})

\* JSON.stringify([...hiddenAppids]); the order of the array is the
\* insertion order of the Set, which the model does not keep
StringifyHidden(hidden) == JsonArray(Ascending(hidden))

\* the members of a stored object or the items of a stored array as the
\* map findMergeRoot reads: map[i] of an index or key i
ObjectAsMap(entry) ==
    [i \in AppIds |->
        IF entry.t = "array"
        THEN IF i + 1 <= Len(entry.items) THEN entry.items[i + 1] ELSE NoEdge
        ELSE IF \E m \in entry.members : m[1] = i
             THEN (CHOOSE m \in entry.members : m[1] = i)[2]
             ELSE NoEdge]

\* the initial state of mergeMap: {} unless the entry parses to something
\* that is truthy and of typeof "object"
LoadMergeMap(entry) ==
    IF entry.t \in {"array", "object"} THEN ObjectAsMap(entry) ELSE EmptyMap

\* the initial state of hiddenAppids: new Set(arr.map(Number)) of an array,
\* else the empty Set
LoadHidden(entry) ==
    IF entry.t = "array"
    THEN {entry.items[i] : i \in 1..Len(entry.items)}
    ELSE {}

\* ------------------------------------------------------------------------
\* Initial state
\* ------------------------------------------------------------------------
Init ==
    /\ rawGames = <<>>
    /\ unmergedGames = <<>>
    /\ merged = <<>>
    /\ games = <<>>
    /\ error = ErrNone
    /\ steamIdInput = ""
    /\ manualLoading = FALSE
    /\ mergeMap = EmptyMap
    /\ mergeFrom = Blank
    /\ mergeTo = Blank
    /\ aggDirty = FALSE
    /\ inflight = {}
    /\ issued = 0
    /\ hiddenAppids = {}
    /\ topNInput = DefaultTopN
    /\ topN = DefaultTopN
    /\ showAll = FALSE
    /\ topNTimer = FALSE
    /\ lsMergeMap = StringifyMap(EmptyMap)
    /\ lsHidden = StringifyHidden({})
    /\ lastOp = "mount"

\* ------------------------------------------------------------------------
\* Merge handlers
\* ------------------------------------------------------------------------
\* the appids the two SearchSelect dropdowns offer (allForMerge)
MergeChoices == {unmergedGames[i].appid : i \in 1..Len(unmergedGames)}

\* onChange of the "From" SearchSelect
SetMergeFrom(v) ==
    /\ ~aggDirty
    /\ Len(unmergedGames) > 0
    /\ v \in MergeChoices \cup {Blank}
    /\ mergeFrom' = v
    /\ lastOp' = "setMergeFrom"
    /\ UNCHANGED storeVars
    /\ UNCHANGED viewVars
    /\ UNCHANGED <<rawGames, unmergedGames, merged, games, error, steamIdInput,
                   manualLoading, mergeMap, mergeTo, aggDirty, inflight, issued>>

\* onChange of the "Into" SearchSelect, which leaves mergeFrom out of its list
SetMergeTo(v) ==
    /\ ~aggDirty
    /\ Len(unmergedGames) > 0
    /\ v \in (MergeChoices \ {mergeFrom}) \cup {Blank}
    /\ mergeTo' = v
    /\ lastOp' = "setMergeTo"
    /\ UNCHANGED storeVars
    /\ UNCHANGED viewVars
    /\ UNCHANGED <<rawGames, unmergedGames, merged, games, error, steamIdInput,
                   manualLoading, mergeMap, mergeFrom, aggDirty, inflight, issued>>

\* a guard that lets a self-edge through
InvalidEdgeBlankOnly(from, to) == from = Blank \/ to = Blank

\* if (mergeFrom === "" || mergeTo === "" || mergeFrom === mergeTo) return;
InvalidEdge(from, to) == from = Blank \/ to = Blank \/ from = to

\* rootTo === mergeFrom, rootTo the root of mergeTo in the map with the new edge
FormsLoop(map, from, to) == findMergeRoot(to, WithEdge(map, from, to)) = from

\* the Merge button of the merge panel, shown once titles are loaded
AddMerge ==
    /\ ~aggDirty
    /\ Len(unmergedGames) > 0
    /\ lastOp' = "addMerge"
    /\ UNCHANGED lsHidden
    /\ UNCHANGED viewVars
    /\ IF InvalidEdge(mergeFrom, mergeTo)
       THEN UNCHANGED <<error, mergeMap, mergeFrom, mergeTo, aggDirty, lsMergeMap>>
       ELSE IF FormsLoop(mergeMap, mergeFrom, mergeTo)
       THEN /\ error' = ErrLoop
            /\ UNCHANGED <<mergeMap, mergeFrom, mergeTo, aggDirty, lsMergeMap>>
       ELSE /\ mergeMap' = WithEdge(mergeMap, mergeFrom, mergeTo)
            /\ mergeFrom' = Blank
            /\ mergeTo' = Blank
            /\ aggDirty' = TRUE
            /\ lsMergeMap' = StringifyMap(mergeMap')
            /\ UNCHANGED error
    /\ UNCHANGED <<rawGames, unmergedGames, merged, games, steamIdInput,
                   manualLoading, inflight, issued>>

\* the X button of a listed merge
RemoveMerge(fromAppid) ==
    /\ ~aggDirty
    /\ Len(unmergedGames) > 0
    /\ mergeMap[fromAppid] # NoEdge
    /\ mergeMap' = [mergeMap EXCEPT ![fromAppid] = NoEdge]
    /\ aggDirty' = TRUE
    /\ lastOp' = "removeMerge"
    /\ lsMergeMap' = StringifyMap(mergeMap')
    /\ UNCHANGED lsHidden
    /\ UNCHANGED viewVars
    /\ UNCHANGED <<rawGames, unmergedGames, merged, games, error, steamIdInput,
                   manualLoading, mergeFrom, mergeTo, inflight, issued>>

ClearMerges ==
    /\ ~aggDirty
    /\ Len(unmergedGames) > 0
    /\ \E i \in Ids : mergeMap[i] # NoEdge
    /\ mergeMap' = EmptyMap
    /\ mergeFrom' = Blank
    /\ mergeTo' = Blank
    /\ aggDirty' = TRUE
    /\ lastOp' = "clearMerges"
    /\ lsMergeMap' = StringifyMap(mergeMap')
    /\ UNCHANGED lsHidden
    /\ UNCHANGED viewVars
    /\ UNCHANGED <<rawGames, unmergedGames, merged, games, error, steamIdInput,
                   manualLoading, inflight, issued>>

\* ------------------------------------------------------------------------
\* The aggregation effect, useEffect(..., [rawGames, mergeMap])
\* ------------------------------------------------------------------------
AggregationEffect ==
    /\ aggDirty
    /\ aggDirty' = FALSE
    /\ IF Len(rawGames) = 0
       THEN UNCHANGED <<unmergedGames, merged, games>>
       ELSE LET base == Normalize(rawGames)
                m == Aggregate(base, mergeMap)
            IN  /\ unmergedGames' = base
                /\ merged' = m
                /\ games' = Values(m)
    /\ lastOp' = "aggregationEffect"
    /\ UNCHANGED storeVars
    /\ UNCHANGED viewVars
    /\ UNCHANGED <<rawGames, error, steamIdInput, manualLoading, mergeMap,
                   mergeFrom, mergeTo, inflight, issued>>

\* ------------------------------------------------------------------------
\* The loaders and their fetches
\* ------------------------------------------------------------------------
\* onChange of the SteamID input
SetSteamIdInput(text) ==
    /\ ~aggDirty
    /\ text \in SteamIdTexts
    /\ steamIdInput' = text
    /\ lastOp' = "setSteamIdInput"
    /\ UNCHANGED storeVars
    /\ UNCHANGED viewVars
    /\ UNCHANGED <<rawGames, unmergedGames, merged, games, error, manualLoading,
                   mergeMap, mergeFrom, mergeTo, aggDirty, inflight, issued>>

\* a fetch that has been issued and is awaited
Fetch(kind, seq) == [kind |-> kind, seq |-> seq]

\* loadMyGames up to its first await
LoadMyGames ==
    /\ ~aggDirty
    /\ issued < MaxFetches
    /\ error' = ErrNone
    /\ rawGames' = <<>>
    /\ games' = <<>>
    /\ aggDirty' = TRUE
    /\ issued' = issued + 1
    /\ inflight' = inflight \cup {Fetch("my", issued + 1)}
    /\ lastOp' = "loadMyGames"
    /\ UNCHANGED storeVars
    /\ UNCHANGED viewVars
    /\ UNCHANGED <<unmergedGames, merged, steamIdInput, manualLoading, mergeMap,
                   mergeFrom, mergeTo>>

\* loadMyGames after its awaits, fetch and r.json() having resolved: the
\* response, whatever its status, carries list as data.response.games
MyGamesResolved(f, list) ==
    /\ ~aggDirty
    /\ f \in inflight
    /\ f.kind = "my"
    /\ list \in Responses
    /\ inflight' = inflight \ {f}
    /\ IF Len(list) = 0
       THEN /\ error' = ErrNoGamesMy
            /\ UNCHANGED <<rawGames, aggDirty>>
       ELSE /\ rawGames' = list
            /\ aggDirty' = TRUE
            /\ UNCHANGED error
    /\ lastOp' = IF Len(list) = 0 THEN "myGamesFailed" ELSE "myGamesLoaded"
    /\ UNCHANGED storeVars
    /\ UNCHANGED viewVars
    /\ UNCHANGED <<unmergedGames, merged, games, steamIdInput, manualLoading,
                   mergeMap, mergeFrom, mergeTo, issued>>

\* loadMyGames when fetch or r.json() rejects: nothing catches it
MyGamesRejected(f) ==
    /\ ~aggDirty
    /\ f \in inflight
    /\ f.kind = "my"
    /\ inflight' = inflight \ {f}
    /\ lastOp' = "myGamesRejected"
    /\ UNCHANGED storeVars
    /\ UNCHANGED viewVars
    /\ UNCHANGED <<rawGames, unmergedGames, merged, games, error, steamIdInput,
                   manualLoading, mergeMap, mergeFrom, mergeTo, aggDirty, issued>>

\* loadGamesById up to its first await; the button is disabled while
\* manualLoading or while the input is blank
LoadGamesById ==
    /\ ~aggDirty
    /\ issued < MaxFetches
    /\ steamIdInput # ""
    /\ ~manualLoading
    /\ manualLoading' = TRUE
    /\ error' = ErrNone
    /\ rawGames' = <<>>
    /\ games' = <<>>
    /\ aggDirty' = TRUE
    /\ issued' = issued + 1
    /\ inflight' = inflight \cup {Fetch("id", issued + 1)}
    /\ lastOp' = "loadGamesById"
    /\ UNCHANGED storeVars
    /\ UNCHANGED viewVars
    /\ UNCHANGED <<unmergedGames, merged, steamIdInput, mergeMap, mergeFrom, mergeTo>>

\* loadGamesById after its awaits, fetch and r.json() having resolved
GamesByIdResolved(f, ok, list) ==
    /\ ~aggDirty
    /\ f \in inflight
    /\ f.kind = "id"
    /\ ok \in BOOLEAN
    /\ list \in Responses
    /\ inflight' = inflight \ {f}
    /\ IF ~ok
       THEN /\ error' = ErrFailedForId
            /\ UNCHANGED <<rawGames, aggDirty>>
       ELSE IF Len(list) = 0
       THEN /\ error' = ErrNoGamesId
            /\ UNCHANGED <<rawGames, aggDirty>>
       ELSE /\ rawGames' = list
            /\ aggDirty' = TRUE
            /\ UNCHANGED error
    /\ manualLoading' = FALSE
    /\ lastOp' = IF ~ok \/ Len(list) = 0 THEN "gamesByIdFailed" ELSE "gamesByIdLoaded"
    /\ UNCHANGED storeVars
    /\ UNCHANGED viewVars
    /\ UNCHANGED <<unmergedGames, merged, games, steamIdInput, mergeMap, mergeFrom,
                   mergeTo, issued>>

\* loadGamesById when fetch or r.json() rejects: the catch block
GamesByIdRejected(f) ==
    /\ ~aggDirty
    /\ f \in inflight
    /\ f.kind = "id"
    /\ inflight' = inflight \ {f}
    /\ error' = ErrFailed
    /\ manualLoading' = FALSE
    /\ lastOp' = "gamesByIdRejected"
    /\ UNCHANGED storeVars
    /\ UNCHANGED viewVars
    /\ UNCHANGED <<rawGames, unmergedGames, merged, games, steamIdInput, mergeMap,
                   mergeFrom, mergeTo, aggDirty, issued>>

Fetches == {Fetch(k, n) : k \in {"my", "id"}, n \in 1..MaxFetches}

\* ------------------------------------------------------------------------
\* The views computed on render (useMemo)
\* ------------------------------------------------------------------------
\* games.filter(g => hiddenAppids.has(g.appid))
HiddenOf(gs, hidden) == SelectSeq(gs, LAMBDA g : g.appid \in hidden)

\* games.filter(g => !hiddenAppids.has(g.appid))
VisibleOf(gs, hidden) == SelectSeq(gs, LAMBDA g : g.appid \notin hidden)

\* an insertion that puts g in front of the entries of equal playtime
InsertBeforeTies(sorted, g) ==
    LET k == Cardinality({j \in 1..Len(sorted) : sorted[j].hours > g.hours})
    IN  SubSeq(sorted, 1, k) \o <<g>> \o SubSeq(sorted, k + 1, Len(sorted))

\* where a stable descending sort puts g among the already sorted: behind
\* every entry that does not compare after it
InsertByHours(sorted, g) ==
    LET k == Cardinality({j \in 1..Len(sorted) : sorted[j].hours >= g.hours})
    IN  SubSeq(sorted, 1, k) \o <<g>> \o SubSeq(sorted, k + 1, Len(sorted))

RECURSIVE SortLoop(_, _, _)
SortLoop(sorted, gs, i) ==
    IF i > Len(gs) THEN sorted
    ELSE SortLoop(InsertByHours(sorted, gs[i]), gs, i + 1)

\* [...visibleGames].sort((a, b) => b.hours - a.hours), a stable sort
SortByHours(gs) == SortLoop(<<>>, gs, 1)

\* sorted.slice(0, n)
Slice(gs, n) == SubSeq(gs, 1, Min2(n, Len(gs)))

\* a feed that is cut to the limit even when showAll is checked
FilteredSliced(visible, n, all) ==
    Slice(SortByHours(visible), Max2(MinTopN, n))

\* the filtered memo: sorted, and cut to max(5, topN) unless showAll
Filtered(visible, n, all) ==
    LET sorted == SortByHours(visible)
    IN  IF all THEN sorted ELSE Slice(sorted, Max2(MinTopN, n))

hiddenGamesList == HiddenOf(games, hiddenAppids)

visibleGames == VisibleOf(games, hiddenAppids)

filtered == Filtered(visibleGames, topN, showAll)

\* ------------------------------------------------------------------------
\* View controls
\* ------------------------------------------------------------------------
GameIds == {games[i].appid : i \in 1..Len(games)}

\* a bubble's onToggleHide, or the Unhide button
ToggleHide(appid) ==
    /\ ~aggDirty
    /\ appid \in GameIds
    /\ hiddenAppids' = IF appid \in hiddenAppids
                       THEN hiddenAppids \ {appid}
                       ELSE hiddenAppids \cup {appid}
    /\ lastOp' = "toggleHide"
    /\ lsHidden' = StringifyHidden(hiddenAppids')
    /\ UNCHANGED lsMergeMap
    /\ UNCHANGED <<rawGames, unmergedGames, merged, games, error, steamIdInput,
                   manualLoading, mergeMap, mergeFrom, mergeTo, aggDirty, inflight,
                   issued, topNInput, topN, showAll, topNTimer>>

\* the "Clear hidden" button, shown while a game is hidden
ClearHidden ==
    /\ ~aggDirty
    /\ Len(hiddenGamesList) > 0
    /\ hiddenAppids' = {}
    /\ lastOp' = "clearHidden"
    /\ lsHidden' = StringifyHidden(hiddenAppids')
    /\ UNCHANGED lsMergeMap
    /\ UNCHANGED <<rawGames, unmergedGames, merged, games, error, steamIdInput,
                   manualLoading, mergeMap, mergeFrom, mergeTo, aggDirty, inflight,
                   issued, topNInput, topN, showAll, topNTimer>>

\* the "Show all games" checkbox
SetShowAll(checked) ==
    /\ ~aggDirty
    /\ Len(games) > 0
    /\ showAll' = checked
    /\ lastOp' = "setShowAll"
    /\ UNCHANGED storeVars
    /\ UNCHANGED <<rawGames, unmergedGames, merged, games, error, steamIdInput,
                   manualLoading, mergeMap, mergeFrom, mergeTo, aggDirty, inflight,
                   issued, hiddenAppids, topNInput, topN, topNTimer>>

\* the Top N slider (disabled while showAll); its effect restarts the timeout
SetTopNInput(v) ==
    /\ ~aggDirty
    /\ Len(games) > 0
    /\ ~showAll
    /\ v \in TopNChoices
    /\ topNInput' = v
    /\ topNTimer' = TRUE
    /\ lastOp' = "setTopNInput"
    /\ UNCHANGED storeVars
    /\ UNCHANGED <<rawGames, unmergedGames, merged, games, error, steamIdInput,
                   manualLoading, mergeMap, mergeFrom, mergeTo, aggDirty, inflight,
                   issued, hiddenAppids, topN, showAll>>

\* setTimeout(() => setTopN(topNInput), 120) fires
TopNTimeout ==
    /\ ~aggDirty
    /\ topNTimer
    /\ topN' = topNInput
    /\ topNTimer' = FALSE
    /\ lastOp' = "topNTimeout"
    /\ UNCHANGED storeVars
    /\ UNCHANGED <<rawGames, unmergedGames, merged, games, error, steamIdInput,
                   manualLoading, mergeMap, mergeFrom, mergeTo, aggDirty, inflight,
                   issued, hiddenAppids, topNInput, showAll>>

\* ------------------------------------------------------------------------
\* The App
\* ------------------------------------------------------------------------
Next ==
    \/ \E v \in Ids \cup {Blank} : SetMergeFrom(v)
    \/ \E v \in Ids \cup {Blank} : SetMergeTo(v)
    \/ AddMerge
    \/ \E i \in Ids : RemoveMerge(i)
    \/ ClearMerges
    \/ AggregationEffect
    \/ \E t \in SteamIdTexts : SetSteamIdInput(t)
    \/ LoadMyGames
    \/ \E f \in Fetches, list \in Responses : MyGamesResolved(f, list)
    \/ \E f \in Fetches : MyGamesRejected(f)
    \/ LoadGamesById
    \/ \E f \in Fetches, ok \in BOOLEAN, list \in Responses : GamesByIdResolved(f, ok, list)
    \/ \E f \in Fetches : GamesByIdRejected(f)

Spec == Init /\ [][Next]_vars

\* ------------------------------------------------------------------------
\* The aggregation effect on every small library and every merge map
\* ------------------------------------------------------------------------
\* playtimes of the libraries enumerated
PlayVals == {120, 300, 600}

RawRecords == {[appid |-> i, name |-> Names[i], playtime_forever |-> p] :
                   i \in Ids, p \in PlayVals}

DistinctAppids(list) ==
    \A i, j \in 1..Len(list) : i # j => list[i].appid # list[j].appid

\* the libraries of at most MaxId titles, in every order
SmallLists(records) ==
    {list \in UNION {[1..n -> records] : n \in 1..MaxId} : DistinctAppids(list)}

AggInputs == SmallLists(RawRecords) \cup {FullList, PartialList}

\* the merge maps over Ids: every appid has no edge or an edge to another appid
AllMaps ==
    {[i \in AppIds |-> IF i \in Ids THEN m[i] ELSE NoEdge] :
         m \in {f \in [Ids -> Ids \cup {NoEdge}] : \A i \in Ids : f[i] # i}}

\* a library has just been loaded and the effect is about to run
LoadedInit(inputs, maps) ==
    /\ rawGames \in inputs
    /\ mergeMap \in maps
    /\ unmergedGames = <<>>
    /\ merged = <<>>
    /\ games = <<>>
    /\ error = ErrNone
    /\ steamIdInput = ""
    /\ manualLoading = FALSE
    /\ mergeFrom = Blank
    /\ mergeTo = Blank
    /\ aggDirty = TRUE
    /\ inflight = {}
    /\ issued = 1
    /\ hiddenAppids = {}
    /\ topNInput = DefaultTopN
    /\ topN = DefaultTopN
    /\ showAll = FALSE
    /\ topNTimer = FALSE
    /\ lsMergeMap = StringifyMap(mergeMap)
    /\ lsHidden = StringifyHidden({})
    /\ lastOp = "myGamesLoaded"

AggInit == LoadedInit(AggInputs, AllMaps)

AggNext == AggregationEffect

AggSpec == AggInit /\ [][AggNext]_vars

\* ------------------------------------------------------------------------
\* The view controls on every small library and one long library
\* ------------------------------------------------------------------------
\* playtimes of the libraries ranked: ties happen
RankPlayVals == {60, 120}

RankRecords == {[appid |-> i, name |-> Names[i], playtime_forever |-> p] :
                    i \in Ids, p \in RankPlayVals}

RankInputs == SmallLists(RankRecords) \cup {LongList}

RankInit == LoadedInit(RankInputs, {EmptyMap})

RankNext ==
    \/ AggregationEffect
    \/ \E a \in AppIds : ToggleHide(a)
    \/ ClearHidden
    \/ \E b \in BOOLEAN : SetShowAll(b)
    \/ \E v \in TopNChoices : SetTopNInput(v)
    \/ TopNTimeout

RankSpec == RankInit /\ [][RankNext]_vars

\* ------------------------------------------------------------------------
\* The merge panel on a loaded library, no fetch in flight
\* ------------------------------------------------------------------------
MergeInit == LoadedInit({FullList, PartialList}, {EmptyMap})

MergeNext ==
    \/ AggregationEffect
    \/ \E v \in Ids \cup {Blank} : SetMergeFrom(v)
    \/ \E v \in Ids \cup {Blank} : SetMergeTo(v)
    \/ AddMerge
    \/ \E i \in Ids : RemoveMerge(i)
    \/ ClearMerges

MergeSpec == MergeInit /\ [][MergeNext]_vars

\* ------------------------------------------------------------------------
\* Merging and hiding on a loaded library: every handler that changes a
\* persisted state
\* ------------------------------------------------------------------------
PersistInit == LoadedInit({FullList, PartialList}, {EmptyMap})

PersistNext ==
    \/ AggregationEffect
    \/ \E v \in Ids \cup {Blank} : SetMergeFrom(v)
    \/ \E v \in Ids \cup {Blank} : SetMergeTo(v)
    \/ AddMerge
    \/ \E i \in Ids : RemoveMerge(i)
    \/ ClearMerges
    \/ \E a \in Ids : ToggleHide(a)
    \/ ClearHidden

PersistSpec == PersistInit /\ [][PersistNext]_vars

\* ------------------------------------------------------------------------
\* Startup: the two lazy useState initialisers read the durable store
\* ------------------------------------------------------------------------
\* what the store can hold that is no JSON array and no JSON object
ScalarEntries == {Missing, EmptyText, Malformed, JsonNull, JsonNumber, JsonString}

\* the "mergeMap" entries a page load can find: none, damaged text, a
\* scalar, an array, the maps the app itself writes, an object with a value
\* that is no integer
StoredMapEntries ==
    ScalarEntries
    \cup {JsonArray(<<>>), JsonArray(<<2, 3>>)}
    \cup {StringifyMap(m) : m \in AllMaps}
    \cup {JsonObject({<<1, NotAnId>>}), JsonObject({<<1, 2>>, <<2, NotAnId>>})}

\* the "hiddenAppids" entries a page load can find: none, damaged text, a
\* scalar, an object, the arrays the app itself writes, an array with an
\* item that is no integer
StoredHiddenEntries ==
    ScalarEntries
    \cup {JsonObject({}), JsonObject({<<1, 2>>})}
    \cup {StringifyHidden(h) : h \in SUBSET Ids}
    \cup {JsonArray(<<NotAnId>>), JsonArray(<<1, NotAnId>>)}

\* the page is about to load over some content of the store
StartupInit ==
    /\ lsMergeMap \in StoredMapEntries
    /\ lsHidden \in StoredHiddenEntries
    /\ rawGames = <<>>
    /\ unmergedGames = <<>>
    /\ merged = <<>>
    /\ games = <<>>
    /\ error = ErrNone
    /\ steamIdInput = ""
    /\ manualLoading = FALSE
    /\ mergeMap = EmptyMap
    /\ mergeFrom = Blank
    /\ mergeTo = Blank
    /\ aggDirty = FALSE
    /\ inflight = {}
    /\ issued = 0
    /\ hiddenAppids = {}
    /\ topNInput = DefaultTopN
    /\ topN = DefaultTopN
    /\ showAll = FALSE
    /\ topNTimer = FALSE
    /\ lastOp = "start"

\* the first render: useState(() => ...) of hiddenAppids and of mergeMap
Construct ==
    /\ lastOp = "start"
    /\ hiddenAppids' = LoadHidden(lsHidden)
    /\ mergeMap' = LoadMergeMap(lsMergeMap)
    /\ lastOp' = "construct"
    /\ UNCHANGED storeVars
    /\ UNCHANGED <<rawGames, unmergedGames, merged, games, error, steamIdInput,
                   manualLoading, mergeFrom, mergeTo, aggDirty, inflight, issued,
                   topNInput, topN, showAll, topNTimer>>

\* the effects of the first commit: both persistence effects write the
\* loaded state back; the aggregation effect returns at once, rawGames
\* being empty
MountEffects ==
    /\ lastOp = "construct"
    /\ lsHidden' = StringifyHidden(hiddenAppids)
    /\ lsMergeMap' = StringifyMap(mergeMap)
    /\ lastOp' = "mount"
    /\ UNCHANGED <<rawGames, unmergedGames, merged, games, error, steamIdInput,
                   manualLoading, mergeMap, mergeFrom, mergeTo, aggDirty, inflight,
                   issued>>
    /\ UNCHANGED viewVars

StartupNext ==
    \/ Construct
    \/ MountEffects

StartupSpec == StartupInit /\ [][StartupNext]_vars

\* ------------------------------------------------------------------------
\* Properties
\* ------------------------------------------------------------------------
\* the appid reached from a after k edges, NoEdge when the chain ends before
RECURSIVE Walk(_, _, _)
Walk(map, a, k) ==
    IF k = 0 THEN a
    ELSE IF map[a] = NoEdge THEN NoEdge
    ELSE Walk(map, map[a], k - 1)

\* b is reached from a by following one or more edges
Reaches(map, a, b) == \E k \in 1..Cardinality(DOMAIN map) : Walk(map, a, k) = b

Acyclic(map) == \A a \in DOMAIN map : ~Reaches(map, a, a)

\* the identifiers a merge map refers to, as a source or as a target
Referenced(map) ==
    {a \in DOMAIN map : map[a] # NoEdge} \cup ({map[a] : a \in DOMAIN map} \ {NoEdge})

RECURSIVE SumHoursFrom(_, _)
SumHoursFrom(gs, i) == IF i > Len(gs) THEN 0 ELSE gs[i].hours + SumHoursFrom(gs, i + 1)

\* the sum of the playtime of the entries of a list
SumHours(gs) == SumHoursFrom(gs, 1)

RECURSIVE SumPlaytimeFrom(_, _)
SumPlaytimeFrom(raw, i) ==
    IF i > Len(raw) THEN 0 ELSE raw[i].playtime_forever + SumPlaytimeFrom(raw, i + 1)

\* the sum of the playtime the provider reported
SumPlaytime(raw) == SumPlaytimeFrom(raw, 1)

\* every record is a title: an appid, a name, a playtime that is not negative
ValidTitles(raw) ==
    /\ Len(raw) > 0
    /\ DistinctAppids(raw)
    /\ \A i \in 1..Len(raw) :
           raw[i].appid # 0 /\ raw[i].name # "" /\ raw[i].playtime_forever >= 0

\* the titles of a list whose root is r
Contributors(base, map, r) == SelectSeq(base, LAMBDA g : findMergeRoot(g.appid, map) = r)

RootsOf(base, map) == {findMergeRoot(base[i].appid, map) : i \in 1..Len(base)}

\* the aggregation effect has run on the current rawGames and mergeMap
Aggregated == ~aggDirty /\ Len(rawGames) > 0

\* C1: the merge map never contains a cycle: no identifier reaches itself by
\* following one or more edges.
C1_NoCycle == Acyclic(mergeMap)

\* C2: an addMerge whose edge would close a cycle (from # to, from reachable
\* from to along the existing edges) leaves the merge map as it was and sets
\* the message 'That merge would create a loop.'
C2_CycleRejected ==
    [][(/\ AddMerge
        /\ mergeFrom # Blank /\ mergeTo # Blank /\ mergeFrom # mergeTo
        /\ Reaches(mergeMap, mergeTo, mergeFrom))
       => (mergeMap' = mergeMap /\ error' = ErrLoop)]_vars

\* C3: findMergeRoot returns for every id after following at most N edges, N
\* the number of identifiers the map refers to, and what it returns has no
\* outgoing edge.
C3_RootTerminates ==
    \A id \in Ids :
        /\ FindRootSteps(id, {}, mergeMap) <= Cardinality(Referenced(mergeMap))
        /\ mergeMap[findMergeRoot(id, mergeMap)] = NoEdge

\* C4: the completion of a fetch issued before the most recently issued one
\* is discarded: it changes neither the raw title set nor the error message.
C4_StaleDiscarded ==
    [][\A f \in inflight :
           (f \notin inflight' /\ f.seq < issued)
               => (rawGames' = rawGames /\ error' = error)]_vars

\* C5: for an acyclic merge map and a non-empty list of titles with unique
\* ids and names, the playtime of the aggregated entries sums to the playtime
\* of the input titles.
C5_Lossless ==
    (Aggregated /\ Acyclic(mergeMap) /\ ValidTitles(rawGames))
        => SumHours(games) = SumPlaytime(rawGames)

C5_Witness ==
    /\ Aggregated /\ Acyclic(mergeMap) /\ ValidTitles(rawGames)
    /\ Len(games) < Len(rawGames)
    /\ Len(games) > 1

\* C6: the aggregation yields exactly one entry per distinct root that
\* findMergeRoot reaches from the current titles, and the playtime of an entry
\* is the sum of the playtime of the titles whose root is that root.
C6_OneEntryPerRoot ==
    Aggregated =>
        /\ Len(games) = Cardinality(RootsOf(unmergedGames, mergeMap))
        /\ {merged[j].key : j \in 1..Len(merged)} = RootsOf(unmergedGames, mergeMap)
        /\ Len(games) = Len(merged)
        /\ \A j \in 1..Len(merged) :
               games[j].hours =
                   SumHours(Contributors(unmergedGames, mergeMap, merged[j].key))

\* A = 600, B = 300, C = 120 with the edge B -> A gives A = 900 and C = 120
C6_Witness ==
    /\ Aggregated
    /\ rawGames = FullList
    /\ mergeMap = WithEdge(EmptyMap, 2, 1)
    /\ games = << [appid |-> 1, name |-> "A", hours |-> 900],
                  [appid |-> 3, name |-> "C", hours |-> 120] >>

\* the title of a list with the given appid
TitleOf(base, id) == CHOOSE g \in {base[i] : i \in 1..Len(base)} : g.appid = id

SameIdentity(entry, title) == entry.appid = title.appid /\ entry.name = title.name

\* the root of an entry is none of the current titles
Dangling(base, r) == ~\E i \in 1..Len(base) : base[i].appid = r

\* the smallest appid among the titles of a list
SmallestId(gs) ==
    CHOOSE a \in {gs[i].appid : i \in 1..Len(gs)} :
        \A i \in 1..Len(gs) : a <= gs[i].appid

\* C7 as amended: the entry of a root r carries the identity of the title
\* whose id is r when that title is among the current titles; otherwise it
\* carries the identity of the first title of the list whose root is r.
C7_FirstContributor ==
    Aggregated =>
        \A j \in 1..Len(merged) :
            LET r == merged[j].key
            IN  IF Dangling(unmergedGames, r)
                THEN SameIdentity(games[j], Contributors(unmergedGames, mergeMap, r)[1])
                ELSE SameIdentity(games[j], TitleOf(unmergedGames, r))

\* C7 as claimed: the entry of a dangling root carries the identity of the
\* contributing title with the smallest id.
C7_SmallestContributor ==
    Aggregated =>
        \A j \in 1..Len(merged) :
            LET r == merged[j].key
            IN  IF Dangling(unmergedGames, r)
                THEN games[j].appid = SmallestId(Contributors(unmergedGames, mergeMap, r))
                ELSE SameIdentity(games[j], TitleOf(unmergedGames, r))

\* a dangling root with two contributors, the first of them not the smallest
C7_Witness ==
    /\ Aggregated
    /\ \E j \in 1..Len(merged) :
           LET cs == Contributors(unmergedGames, mergeMap, merged[j].key)
           IN  /\ Dangling(unmergedGames, merged[j].key)
               /\ Len(cs) > 1
               /\ cs[1].appid # SmallestId(cs)
               /\ games[j].appid = cs[1].appid

\* the position of the entry of an appid in a list of entries of distinct appids
PosOf(gs, id) == CHOOSE i \in 1..Len(gs) : gs[i].appid = id

\* C8 as amended: the ranked feed is in descending order of playtime, and two
\* entries of equal playtime are in the order they have in the aggregated list.
C8_StableDescending ==
    Aggregated =>
        \A i, j \in 1..Len(filtered) :
            i < j =>
                \/ filtered[i].hours > filtered[j].hours
                \/ /\ filtered[i].hours = filtered[j].hours
                   /\ PosOf(games, filtered[i].appid) < PosOf(games, filtered[j].appid)

\* C8 as claimed: descending by playtime, entries of equal playtime in
\* ascending order of id.
C8_TiesByAscendingId ==
    Aggregated =>
        \A i, j \in 1..Len(filtered) :
            i < j =>
                \/ filtered[i].hours > filtered[j].hours
                \/ /\ filtered[i].hours = filtered[j].hours
                   /\ filtered[i].appid < filtered[j].appid

\* a feed with a tie and a strict descent, some game hidden
C8_Witness ==
    /\ Aggregated
    /\ hiddenAppids # {}
    /\ Len(filtered) > 2
    /\ \E i \in 1..(Len(filtered) - 1) : filtered[i].hours = filtered[i + 1].hours
    /\ \E i \in 1..(Len(filtered) - 1) : filtered[i].hours > filtered[i + 1].hours

\* C9 as amended: addMerge with from equal to to, or with a blank endpoint,
\* returns without a trace: the merge map, the error message, the two
\* endpoints and everything derived stay as they were.
C9_InvalidEdgeSilent ==
    [][(AddMerge /\ (mergeFrom = Blank \/ mergeTo = Blank \/ mergeFrom = mergeTo))
       => UNCHANGED <<mergeMap, error, mergeFrom, mergeTo, aggDirty, rawGames,
                      unmergedGames, merged, games>>]_vars

\* C9 as claimed: such a call leaves the merge map as it was and leaves a
\* rejection for the caller to show.
C9_InvalidEdgeReported ==
    [][(AddMerge /\ (mergeFrom = Blank \/ mergeTo = Blank \/ mergeFrom = mergeTo))
       => (mergeMap' = mergeMap /\ error' # ErrNone)]_vars

\* addMerge has just returned on from = to
C9_Witness ==
    /\ lastOp = "addMerge"
    /\ mergeFrom # Blank
    /\ mergeFrom = mergeTo

\* C10: once a fetch of loadMyGames or loadGamesById has failed, the raw
\* title set is empty and an error message is set; and no failure message is
\* ever shown together with a non-empty raw title set.
C10_FailureClearsRaw ==
    /\ lastOp \in {"myGamesFailed", "myGamesRejected", "gamesByIdFailed", "gamesByIdRejected"}
           => (rawGames = <<>> /\ error # ErrNone)
    /\ error \in FetchFailureMessages => rawGames = <<>>

\* a stored entry that is a mapping from integer ids to integer ids
IsIdMap(entry) ==
    /\ entry.t = "object"
    /\ \A m \in entry.members : m[2] # NotAnId

\* a stored entry that is an array of integers
IsIdArray(entry) ==
    /\ entry.t = "array"
    /\ \A i \in 1..Len(entry.items) : entry.items[i] # NotAnId

\* C12: on startup, a stored merge-edge entry that is missing, is no valid
\* JSON or is no mapping from integer ids to integer ids (an array, an
\* object with a value that is no integer) gives the empty merge map, and a
\* stored hidden-set entry that is missing, is no valid JSON or is no array
\* of integers gives the empty hidden set
C12_WrongShapeLoadsEmpty ==
    lastOp = "construct" =>
        /\ ~IsIdMap(lsMergeMap) => mergeMap = EmptyMap
        /\ ~IsIdArray(lsHidden) => hiddenAppids = {}

\* the feed computed from the current raw titles, merge map, hidden set and
\* limit
ExpectedFeed ==
    Filtered(VisibleOf(Values(Aggregate(Normalize(rawGames), mergeMap)),
                       hiddenAppids),
             topN, showAll)

\* C11: in every state the renderer can observe, the ranked feed equals
\* rank(filterVisible(aggregate(raw titles, merge map), hidden set), limit)
\* of the current values: no render shows a feed computed from the raw
\* titles or the merge map from before a mutation
C11_FeedCurrent == filtered = ExpectedFeed

====
